---- MODULE Spec2Model ----
(***************************************************************************)
(* Model of the path tracer in src/src/main.rs, src/src/ray.rs and         *)
(* src/src/color.rs.                                                       *)
(*                                                                         *)
(* f32 values are modelled as fixed-point integers: the integer a stands   *)
(* for the number a / Scale.  Products, quotients and square roots round   *)
(* toward zero.  The value NaN stands for the IEEE not-a-number; every     *)
(* arithmetic operation propagates it and every comparison with it is      *)
(* false, as for f32.                                                      *)
(***************************************************************************)
EXTENDS Integers, Sequences, FiniteSets, TLC

\* ------------------------------------------------------------------------
\* f32 arithmetic
\* ------------------------------------------------------------------------
Scale == 16
NaN == -1000000

One == Scale
Half == Scale \div 2

Abs(a) == IF a < 0 THEN -a ELSE a

\* integer division rounding toward zero
TDiv(a, b) ==
    IF (a >= 0) = (b > 0) THEN Abs(a) \div Abs(b) ELSE -(Abs(a) \div Abs(b))

\* a `let` binding: Only({ F(v) : v \in { e } }) is F applied to the value of
\* e, which is computed once, where LET v == e IN F(v) stands for F with the
\* expression e in place of v
Only(S) == CHOOSE v \in S : TRUE

\* the root r of m with r * r <= m < (r + 1) * (r + 1), searched between the
\* powers of two that bracket it; m < 4 ^ 15
SqrtSearch(m) ==
    IF m = 0 THEN 0
    ELSE LET k == CHOOSE e \in 0 .. 14 : 4 ^ e <= m /\ m < 4 ^ (e + 1)
         IN  CHOOSE r \in (2 ^ k) .. (2 ^ (k + 1) - 1) :
                 r * r <= m /\ m < (r + 1) * (r + 1)

\* floor of the square root of a natural number
ISqrt(n) == Only({ SqrtSearch(m) : m \in { n } })

IsNaN(a) == a = NaN

FAdd(a, b) == IF IsNaN(a) \/ IsNaN(b) THEN NaN ELSE a + b
FSub(a, b) == IF IsNaN(a) \/ IsNaN(b) THEN NaN ELSE a - b
FNeg(a) == IF IsNaN(a) THEN NaN ELSE -a
FMul(a, b) == IF IsNaN(a) \/ IsNaN(b) THEN NaN ELSE TDiv(a * b, Scale)
\* 0.0 / 0.0 is NaN; a non-zero value is never divided by zero in the model
FDiv(a, b) ==
    IF IsNaN(a) \/ IsNaN(b) \/ b = 0 THEN NaN ELSE TDiv(a * Scale, b)
FSqrt(a) == IF IsNaN(a) \/ a < 0 THEN NaN ELSE ISqrt(a * Scale)
FLt(a, b) == ~IsNaN(a) /\ ~IsNaN(b) /\ a < b
FGt(a, b) == ~IsNaN(a) /\ ~IsNaN(b) /\ a > b
FGe(a, b) == ~IsNaN(a) /\ ~IsNaN(b) /\ a >= b

\* Option<T>
None == [some |-> FALSE]
Some(v) == [some |-> TRUE, val |-> v]

\* ------------------------------------------------------------------------
\* nalgebra Vector3<f32> / Point3<f32>
\* ------------------------------------------------------------------------
Vec(x, y, z) == [x |-> x, y |-> y, z |-> z]
VecNaN(v) == IsNaN(v.x) \/ IsNaN(v.y) \/ IsNaN(v.z)
VAdd(a, b) == Vec(FAdd(a.x, b.x), FAdd(a.y, b.y), FAdd(a.z, b.z))
VSub(a, b) == Vec(FSub(a.x, b.x), FSub(a.y, b.y), FSub(a.z, b.z))
VScale(k, v) == Vec(FMul(k, v.x), FMul(k, v.y), FMul(k, v.z))
VDivS(v, k) == Vec(FDiv(v.x, k), FDiv(v.y, k), FDiv(v.z, k))
Dot(a, b) ==
    IF VecNaN(a) \/ VecNaN(b) THEN NaN
    ELSE TDiv(a.x * b.x + a.y * b.y + a.z * b.z, Scale)
Norm(v) ==
    IF VecNaN(v) THEN NaN ELSE ISqrt(v.x * v.x + v.y * v.y + v.z * v.z)
Normalize(v) == Only({ VDivS(w, Norm(w)) : w \in { v } })

\* ------------------------------------------------------------------------
\* ray.rs
\* ------------------------------------------------------------------------
\* Ray::new
NewRay(origin, dir) == [orig |-> origin, direction |-> Normalize(dir)]

\* Ray::at
At(ray, length) == VAdd(VScale(length, ray.direction), ray.orig)

\* ------------------------------------------------------------------------
\* color.rs
\* ------------------------------------------------------------------------
\* Color::new
Color(r, g, b) == [red |-> r, green |-> g, blue |-> b]

White == Color(One, One, One)
Black == Color(0, 0, 0)

\* impl ops::Add for Color / ops::AddAssign
ColAdd(a, b) ==
    Color(FAdd(a.red, b.red), FAdd(a.green, b.green), FAdd(a.blue, b.blue))
\* impl ops::Div<f32> for Color
ColDivS(a, num) == Color(FDiv(a.red, num), FDiv(a.green, num), FDiv(a.blue, num))
\* impl ops::Mul<Color> for f32 / ops::Mul<f32> for Color
ColScale(num, a) == Color(FMul(a.red, num), FMul(a.green, num), FMul(a.blue, num))
\* impl ops::Mul<Color> for Color / ops::MulAssign<Color>
ColMul(a, b) ==
    Color(FMul(a.red, b.red), FMul(a.green, b.green), FMul(a.blue, b.blue))

\* Color::clamp
ClampCh(ch) == IF FGt(ch, One) THEN One ELSE ch
Clamp(c) == Color(ClampCh(c.red), ClampCh(c.green), ClampCh(c.blue))

\* Color::gamma_correction
GammaCorrection(c) == Color(FSqrt(c.red), FSqrt(c.green), FSqrt(c.blue))

U8Max == 255

\* `as u8` on an f32: truncates, saturates at 0 and u8::MAX, NaN becomes 0
AsU8(f) ==
    IF IsNaN(f) THEN 0
    ELSE LET n == TDiv(f, Scale)
         IN  IF n < 0 THEN 0 ELSE IF n > U8Max THEN U8Max ELSE n

\* multiplication of an f32 by the integer constant u8::MAX as f32
MulU8Max(ch) == IF IsNaN(ch) THEN NaN ELSE U8Max * ch

\* impl fmt::Display for Color: the three integers of one pixel line
Display(c) ==
    << AsU8(MulU8Max(c.red)), AsU8(MulU8Max(c.green)), AsU8(MulU8Max(c.blue)) >>

\* ------------------------------------------------------------------------
\* main.rs: materials and spheres
\* ------------------------------------------------------------------------
Lambertian == [kind |-> "Lambertian", fuzz |-> 0]
Metal(f) == [kind |-> "Metal", fuzz |-> f]
Material(mt, c) == [material_type |-> mt, color |-> c]
Sphere(cen, rad, mat) == [centre |-> cen, radius |-> rad, material |-> mat]

\* Sphere::intersect, lines 71-74: the discriminant terms
Quadratic(s, ray) ==
    LET oc == VSub(ray.orig, s.centre)
        n == Norm(oc)
        c == FSub(FMul(n, n), FMul(s.radius, s.radius))
        half_b == Dot(oc, ray.direction)
    IN  [half_b |-> half_b, c |-> c,
         determinant |-> FSub(FMul(half_b, half_b), c)]

\* Sphere::intersect, lines 75-84: which root is reported
FarRootFallback(q) ==
    IF FLt(q.determinant, 0) THEN None
    ELSE LET val == FSub(FNeg(q.half_b), FSqrt(q.determinant))
             far == FAdd(FNeg(q.half_b), FSqrt(q.determinant))
         IN  IF FGe(val, 0) THEN Some(val)
             ELSE IF FGe(far, 0) THEN Some(far) ELSE None

RootOf(q) ==
    IF FLt(q.determinant, 0) THEN None
    ELSE LET val == FSub(FNeg(q.half_b), FSqrt(q.determinant))
         IN  IF FGe(val, 0) THEN Some(val) ELSE None

Intersect(s, ray) == RootOf(Quadratic(s, ray))

\* Sphere::normal
SphereNormal(s, pt) == Normalize(VSub(pt, s.centre))

\* Sphere::get_color
GetColor(s) == s.material.color

\* Sphere::get_material
GetMaterial(s) == s.material

\* nearest_intersection, line 112: does the candidate t replace tmin
LastWinsTies(tmin, t) == ~tmin.some \/ ~FGt(t, tmin.val)

Closer(tmin, t) == ~tmin.some \/ FLt(t, tmin.val)

\* nearest_intersection, lines 108-117: the scan from object i on
RECURSIVE Scan(_, _, _, _, _)
Scan(ray, objs, i, nearest_obj, tmin) ==
    IF i > Len(objs) THEN [nearest_obj |-> nearest_obj, tmin |-> tmin]
    ELSE LET r == Intersect(objs[i], ray)
         IN  IF r.some /\ Closer(tmin, r.val)
             THEN Scan(ray, objs, i + 1, Some(i), Some(r.val))
             ELSE Scan(ray, objs, i + 1, nearest_obj, tmin)

\* nearest_intersection: None, or the hit point, the normal there and the
\* (index of the) object hit
NearestIntersection(ray, objs) ==
    Only({ IF s.nearest_obj.some /\ s.tmin.some
           THEN Some([pt |-> At(ray, s.tmin.val),
                      normal |-> SphereNormal(objs[s.nearest_obj.val],
                                              At(ray, s.tmin.val)),
                      obj |-> s.nearest_obj.val])
           ELSE None :
           s \in { Scan(ray, objs, 1, None, None) } })

\* ------------------------------------------------------------------------
\* rand::rngs::ThreadRng: a generator is its state; a draw advances it
\* ------------------------------------------------------------------------
RngMod == 64
RngStates == 0 .. (RngMod - 1)

RngNext(s) == (5 * s + 11) % RngMod

\* rng.gen::<f32>(): uniform in [0, 1)
GenF32(s) ==
    [val |-> ((RngNext(s) * 4) \div RngMod) * (Scale \div 4), rng |-> RngNext(s)]

\* rng.gen_range(-1f32, 1f32): uniform in [-1, 1)
GenRange(s) ==
    [val |-> ((RngNext(s) * 4) \div RngMod) * (Scale \div 2) - One,
     rng |-> RngNext(s)]

\* random_unit_vector
RandomUnitVector(s) ==
    LET x == GenRange(s)
        y == GenRange(x.rng)
        z == GenRange(y.rng)
    IN  [val |-> Normalize(Vec(x.val, y.val, z.val)), rng |-> z.rng]

\* scatter: the scattered ray and the generator after the draws
Scatter(s, in_ray, intersection_pt, normal_vec, material) ==
    LET rv == RandomUnitVector(s)
    IN  IF material.material_type.kind = "Lambertian"
        THEN [ray |-> NewRay(intersection_pt, VAdd(rv.val, normal_vec)),
              rng |-> rv.rng]
        ELSE [ray |-> NewRay(intersection_pt,
                        VAdd(VSub(in_ray.direction,
                                  VScale(FMul(2 * One,
                                              Dot(normal_vec, in_ray.direction)),
                                         normal_vec)),
                             VScale(material.material_type.fuzz, rv.val))),
              rng |-> rv.rng]

\* ------------------------------------------------------------------------
\* raytracing: the ray_color closure (the path integrator)
\* ------------------------------------------------------------------------
MaxDepth == 20

SkyBlue == Color(Half, (7 * Scale) \div 10, One)

\* line 202: for _ in 0..max_depth
LoopGuardInclusive(i) == i < MaxDepth + 1

LoopGuard(i) == i < MaxDepth

\* line 213: the colour the accumulated colour is multiplied by
FirstObjectColor(objs, h) == GetColor(objs[1])

HitColor(objs, h) == GetColor(objs[h.obj])

\* lines 206-214: one iteration that found the intersection h
BounceStep(objs, st, h) ==
    LET sc == Scatter(st.rng, st.used_ray, h.pt, h.normal,
                      GetMaterial(objs[h.obj]))
    IN  [used_ray |-> sc.ray,
         col |-> ColMul(st.col, HitColor(objs, h)),
         count |-> st.count + 1,
         rng |-> sc.rng]

\* line 219: the test that selects black
ExhaustedInverted(count) == count # MaxDepth

Exhausted(count) == count = MaxDepth + 1

\* lines 219-225: the colour returned after the loop
Shade(st) ==
    IF Exhausted(st.count) THEN Black
    ELSE LET t == FMul(Half, FAdd(st.used_ray.direction.y, One))
         IN  ColMul(st.col,
                    ColAdd(ColScale(FSub(One, t), White), ColScale(t, SkyBlue)))

\* lines 203-217: iteration i of the loop from the state l.st; nothing is left
\* to do once the range is used up or the loop was left by `break`
LoopBody(objs, i, l) ==
    IF l.broke \/ ~LoopGuard(i) THEN l
    ELSE Only({ IF h.some
                THEN [st |-> BounceStep(objs, l.st, h.val), broke |-> FALSE]
                ELSE [st |-> l.st, broke |-> TRUE] :
                h \in { NearestIntersection(l.st.used_ray, objs) } })

\* lines 202-218: the iterations i .. j - 1 in order, the range taken in two
\* halves
RECURSIVE RayLoop(_, _, _, _)
RayLoop(objs, i, j, l) ==
    IF j <= i THEN l
    ELSE IF j = i + 1 THEN LoopBody(objs, i, l)
    ELSE Only({ RayLoop(objs, (i + j) \div 2, j, m) :
                m \in { RayLoop(objs, i, (i + j) \div 2, l) } })

\* the closure as a function of the ray and the generator
RayColor(objs, r, s) ==
    Only({ [color |-> Shade(e.st), rng |-> e.st.rng] :
           e \in { RayLoop(objs, 0, MaxDepth + 1,
                           [st |-> [used_ray |-> r, col |-> White,
                                    count |-> 0, rng |-> s],
                            broke |-> FALSE]) } })

\* ------------------------------------------------------------------------
\* scenes
\* ------------------------------------------------------------------------
\* a point given in half units
HalfPt(x, y, z) == Vec(x * Half, y * Half, z * Half)

Tenths(n) == (n * Scale) \div 10

\* main, lines 239-272
ReferenceScene ==
    << Sphere(Vec(0, -(100 * One) - Half, -One), 100 * One,
              Material(Lambertian, Color(Tenths(8), Tenths(8), 0))),
       Sphere(Vec(0, 0, -One), Half,
              Material(Lambertian, Color(Tenths(7), Tenths(3), Tenths(3)))),
       Sphere(Vec(-One, 0, -One), Half,
              Material(Metal((15 * Scale) \div 100),
                       Color(Tenths(8), Tenths(8), Tenths(8)))),
       Sphere(Vec(One, 0, -One), Half,
              Material(Metal(0), Color(Tenths(8), Tenths(6), Tenths(2)))) >>

\* two perfect mirrors facing each other across the camera
MirrorScene ==
    << Sphere(HalfPt(0, 0, -6), One, Material(Metal(0), Color(One, Half, One))),
       Sphere(HalfPt(0, 0, 6), One, Material(Metal(0), White)) >>

\* two overlapping spheres on the -z axis, the farther one first
OverlapScene ==
    << Sphere(HalfPt(0, 0, -6), 3 * Half, Material(Lambertian, White)),
       Sphere(HalfPt(0, 0, -4), One,
              Material(Lambertian, Color(One, Half, Half))),
       Sphere(HalfPt(4, 0, 0), One, Material(Metal(0), Color(Half, One, Half))) >>

\* two spheres of the same geometry and different colours, and a third one
TieScene ==
    << Sphere(HalfPt(0, 0, -4), One, Material(Lambertian, Color(One, 0, 0))),
       Sphere(HalfPt(0, 0, -4), One, Material(Metal(0), Color(0, One, 0))),
       Sphere(HalfPt(0, 4, 0), One, Material(Lambertian, Color(0, 0, One))) >>

\* a sphere that encloses the camera and the probe origins, and a small one
EnclosingScene ==
    << Sphere(HalfPt(0, 0, 0), 4 * One, Material(Lambertian, White)),
       Sphere(HalfPt(0, 0, -4), One, Material(Lambertian, Color(One, Half, 0))) >>

EmptyScene == << >>

\* ------------------------------------------------------------------------
\* state
\* ------------------------------------------------------------------------
VARIABLES
    objects,     \* the scene: objects of raytracing / objs of nearest_intersection
    probe,       \* the last call of nearest_intersection on a probe ray
    used_ray,    \* ray_color: the ray cursor
    count,       \* ray_color: the hit counter
    col,         \* ray_color: the accumulated colour
    iter,        \* ray_color: index of the next loop iteration
    pc,          \* ray_color: "idle", "loop", "shade" or "done"
    result,      \* ray_color: the colour returned
    rng,         \* ray_color: the generator passed in
    primary,     \* ray_color: the ray and generator state it was called with
    hitlog,      \* ray_color: the objects hit so far, in order
    calls,       \* ray_color: calls made and colours returned so far
    img_height,  \* raytracing_ppm: parameter
    aspect_ratio,\* raytracing_ppm: parameter
    img_width,   \* raytracing_ppm: derived width
    rpc,         \* raytracing_ppm / raytracing: position of the calling thread
    pending,     \* indices of the pixel items no worker has taken yet
    worker,      \* per worker thread: the pixel task it is running, if any
    thread_rng,  \* per worker thread: the state of its thread-local generator
    colors,      \* the collected Vec<Color>, slot by slot
    file,        \* the lines of the output file, None before it is created
    next_px,     \* index of the next element of colors to write
    ret,         \* the value raytracing_ppm returned
    printed,     \* the line raytracing printed
    computed,    \* per pixel (row, column): the colour its task returned
    users,       \* per generator: the pixels whose task drew from it
    ran_on,      \* per pixel item: the worker thread that ran its task
    order,       \* the pixel items in the order their tasks completed
    io           \* I/O calls made, and the first failure

geomVars == << probe >>
pathVars == << used_ray, count, col, iter, pc, result, rng, primary, hitlog,
               calls >>
renderVars == << img_height, aspect_ratio, img_width, rpc, pending, worker,
                 thread_rng, colors, file, next_px, ret, printed, computed,
                 users, ran_on, order, io >>
vars == << objects, probe, used_ray, count, col, iter, pc, result, rng,
           primary, hitlog, calls, img_height, aspect_ratio, img_width, rpc,
           pending, worker, thread_rng, colors, file, next_px, ret, printed,
           computed, users, ran_on, order, io >>

NoRay == [orig |-> Vec(0, 0, 0), direction |-> Vec(0, 0, 0)]
NoCalls == [nearest |-> 0, scatter |-> 0, returned |-> 0, missed |-> FALSE]

PathIdle ==
    /\ used_ray = NoRay
    /\ count = 0
    /\ col = White
    /\ iter = 0
    /\ pc = "idle"
    /\ result = None
    /\ rng = 0
    /\ primary = None
    /\ hitlog = << >>
    /\ calls = NoCalls

GeomIdle == probe = None

NoIo == [calls |-> 0, failed |-> None]

RenderIdle ==
    /\ img_height = 0
    /\ aspect_ratio = 0
    /\ img_width = 0
    /\ rpc = "idle"
    /\ pending = {}
    /\ worker = << >>
    /\ thread_rng = << >>
    /\ colors = << >>
    /\ file = None
    /\ next_px = 0
    /\ ret = None
    /\ printed = None
    /\ computed = << >>
    /\ users = << >>
    /\ ran_on = << >>
    /\ order = << >>
    /\ io = NoIo

\* ------------------------------------------------------------------------
\* nearest_intersection and Sphere::intersect applied to probe rays
\* ------------------------------------------------------------------------
MaxCoord == 1

ProbeOrigins ==
    { Vec(x * One, y * One, z * One) :
        x \in -MaxCoord .. MaxCoord, y \in -MaxCoord .. MaxCoord,
        z \in -MaxCoord .. MaxCoord }

ProbeDirections ==
    { Vec(x, y, z) : x \in {-One, 0, One}, y \in {-One, 0, One},
                     z \in {-One, 0, One} } \ { Vec(0, 0, 0) }

GeomScenes == { OverlapScene, TieScene, EnclosingScene, ReferenceScene }

InitGeom ==
    /\ objects \in GeomScenes
    /\ GeomIdle
    /\ PathIdle
    /\ RenderIdle

\* one call nearest_intersection(ray, objects), with the result of every
\* object's intersect(ray) recorded next to it
Probe(o, d) ==
    LET ray == NewRay(o, d)
    IN  /\ probe = None
        /\ probe' = Some([ray |-> ray,
                          ts |-> [i \in 1 .. Len(objects) |->
                                     Intersect(objects[i], ray)],
                          res |-> NearestIntersection(ray, objects)])
        /\ UNCHANGED objects
        /\ UNCHANGED pathVars
        /\ UNCHANGED renderVars

NextGeom == \E o \in ProbeOrigins, d \in ProbeDirections : Probe(o, d)

SpecGeom == InitGeom /\ [][NextGeom]_vars

\* ------------------------------------------------------------------------
\* the ray_color closure, one loop iteration per step
\* ------------------------------------------------------------------------
ViewSteps == 2

\* directions of primary rays: through the viewport plane z = -focal_length
PrimaryDirections ==
    { Vec(x * Half, y * Half, -One) :
        x \in -ViewSteps .. ViewSteps, y \in -ViewSteps .. ViewSteps }

PathScenes == { EmptyScene, ReferenceScene, MirrorScene, OverlapScene }

InitPath ==
    /\ objects \in PathScenes
    /\ GeomIdle
    /\ PathIdle
    /\ RenderIdle

PathState == [used_ray |-> used_ray, col |-> col, count |-> count, rng |-> rng]

\* lines 197-201: the closure is called with ray r and a generator in state s
Enter(d, s) ==
    /\ pc = "idle"
    /\ used_ray' = NewRay(Vec(0, 0, 0), d)
    /\ primary' = Some([ray |-> NewRay(Vec(0, 0, 0), d), rng |-> s])
    /\ rng' = s
    /\ count' = 0
    /\ col' = White
    /\ iter' = 0
    /\ pc' = "loop"
    /\ UNCHANGED << result, hitlog, calls, objects >>
    /\ UNCHANGED geomVars
    /\ UNCHANGED renderVars

\* lines 203-214: an iteration that finds an intersection
Bounce ==
    /\ pc = "loop"
    /\ LoopGuard(iter)
    /\ \E h \in { NearestIntersection(used_ray, objects) } :
           /\ h.some
           /\ \E st \in { BounceStep(objects, PathState, h.val) } :
                  /\ used_ray' = st.used_ray
                  /\ col' = st.col
                  /\ count' = st.count
                  /\ rng' = st.rng
           /\ hitlog' = Append(hitlog, h.val.obj)
    /\ calls' = [calls EXCEPT !.nearest = @ + 1, !.scatter = @ + 1]
    /\ iter' = iter + 1
    /\ UNCHANGED << pc, result, primary, objects >>
    /\ UNCHANGED geomVars
    /\ UNCHANGED renderVars

\* lines 215-217: an iteration that finds none, and breaks
Miss ==
    /\ pc = "loop"
    /\ LoopGuard(iter)
    /\ ~NearestIntersection(used_ray, objects).some
    /\ calls' = [calls EXCEPT !.nearest = @ + 1, !.missed = TRUE]
    /\ pc' = "shade"
    /\ UNCHANGED << used_ray, col, count, rng, iter, result, primary, hitlog,
                    objects >>
    /\ UNCHANGED geomVars
    /\ UNCHANGED renderVars

\* line 202: the range 0..max_depth is used up
LoopEnd ==
    /\ pc = "loop"
    /\ ~LoopGuard(iter)
    /\ pc' = "shade"
    /\ UNCHANGED << used_ray, col, count, rng, iter, result, primary, hitlog,
                    calls, objects >>
    /\ UNCHANGED geomVars
    /\ UNCHANGED renderVars

\* lines 219-225: the closure returns
Return ==
    /\ pc = "shade"
    /\ result' = Some(Shade(PathState))
    /\ calls' = [calls EXCEPT !.returned = @ + 1]
    /\ pc' = "done"
    /\ UNCHANGED << used_ray, col, count, rng, iter, primary, hitlog, objects >>
    /\ UNCHANGED geomVars
    /\ UNCHANGED renderVars

NextPath ==
    \/ \E d \in PrimaryDirections, s \in RngStates : Enter(d, s)
    \/ Bounce
    \/ Miss
    \/ LoopEnd
    \/ Return

SpecPath == InitPath /\ [][NextPath]_vars

\* the step-by-step run and the closure as a function agree
PathAgreesWithRayColor ==
    pc = "done" =>
        result.val = RayColor(objects, primary.val.ray, primary.val.rng).color

\* ------------------------------------------------------------------------
\* raytracing_ppm and raytracing
\* ------------------------------------------------------------------------
NumThreads == 2
SamplesPerPixel == 2

Threads == 1 .. NumThreads

ImageHeights == { 0, 2 }
AspectRatios == { One }
RenderScenes == { ReferenceScene }
SeedBases == { 3, 40 }

\* the generator states the worker threads start with
SeedVectors == { [th \in Threads |-> (b + 11 * th) % RngMod] : b \in SeedBases }

\* main, line 279
OutputFile == "05_spheres_pic.ppm"

\* main, line 237
ViewportHeight == 2 * One

IoErrors == { "PermissionDenied", "StorageFull" }

\* line 135: (img_height as f32 * aspect_ratio) as u32
WidthOf(h, aspect) ==
    LET w == TDiv(FMul(h * One, aspect), Scale) IN IF w < 0 THEN 0 ELSE w

\* lines 150-153 with the row range one too short
PixelListShort(h, w) ==
    [k \in 1 .. ((h - 1) * w) |-> << (h - 2) - ((k - 1) \div w), (k - 1) % w >>]

\* lines 150-153: (0..img_height).rev().cartesian_product(0..img_width)
PixelList(h, w) ==
    [k \in 1 .. (h * w) |-> << (h - 1) - ((k - 1) \div w), (k - 1) % w >>]

Items == PixelList(img_height, img_width)

\* lines 137-146: the camera
Camera(aspect) ==
    LET vertical == VScale(ViewportHeight, Vec(0, One, 0))
        horizontal == VScale(FMul(ViewportHeight, aspect), Vec(One, 0, 0))
    IN  [origin |-> Vec(0, 0, 0),
         vertical |-> vertical,
         horizontal |-> horizontal,
         lower_left_corner |->
             VSub(VSub(VSub(Vec(0, 0, 0), VDivS(vertical, 2 * One)),
                       VDivS(horizontal, 2 * One)),
                  VScale(One, Vec(0, 0, One)))]

\* lines 160-166: the primary ray of pixel x for the jitters ru and rv
CameraRay(cam, x, ru, rv) ==
    LET u == FDiv(FAdd(x[2] * One, ru), (img_width - 1) * One)
        v == FDiv(FAdd(x[1] * One, rv), (img_height - 1) * One)
    IN  NewRay(cam.origin,
               VSub(VAdd(VAdd(cam.lower_left_corner, VScale(u, cam.horizontal)),
                         VScale(v, cam.vertical)),
                    cam.origin))

\* lines 159-167: one sample of pixel x added to acc, drawing from state s
SampleStep(x, acc, s) ==
    LET ru == GenF32(s)
        rv == GenF32(ru.rng)
    IN  Only({ [col |-> ColAdd(acc, rc.color), rng |-> rc.rng] :
               rc \in { RayColor(objects, r, rv.rng) :
                        r \in { CameraRay(Camera(aspect_ratio), x, ru.val,
                                          rv.val) } } })

\* lines 158-168: the sample loop from iteration k on
RECURSIVE SampleLoop(_, _, _, _)
SampleLoop(x, k, acc, s) ==
    IF k >= SamplesPerPixel THEN [col |-> acc, rng |-> s]
    ELSE Only({ SampleLoop(x, k + 1, r.col, r.rng) :
                r \in { SampleStep(x, acc, s) } })

\* rand::thread_rng() with one generator for the whole process
GlobalRng(th) == 1

\* rand::thread_rng(): a handle to the generator local to the calling thread
ThreadRngOf(th) == th

\* collect() pushing results in the order the tasks complete
CompletionSlot(i, done) == done + 1

\* collect() on an indexed parallel iterator: item i goes to slot i
CollectSlot(i, done) == i

\* the `?` operator applied to an I/O result that is dropped instead
Ignored(r) == FALSE

\* the `?` operator applied to an I/O result: does the function return
Propagates(r) == r # "ok"

Idle == [busy |-> FALSE]

NumCollected == Cardinality({ k \in DOMAIN colors : colors[k].some })

InitRender ==
    /\ objects \in RenderScenes
    /\ GeomIdle
    /\ PathIdle
    /\ img_height \in ImageHeights
    /\ aspect_ratio \in AspectRatios
    /\ thread_rng \in SeedVectors
    /\ worker = [th \in Threads |-> Idle]
    /\ users = [th \in Threads |-> {}]
    /\ img_width = 0
    /\ rpc = "start"
    /\ pending = {}
    /\ colors = << >>
    /\ file = None
    /\ next_px = 0
    /\ ret = None
    /\ printed = None
    /\ computed = << >>
    /\ ran_on = << >>
    /\ order = << >>
    /\ io = NoIo

\* lines 135-154: the width, the item list and the hand-over to the pool
BuildItems ==
    /\ rpc = "start"
    /\ img_width' = WidthOf(img_height, aspect_ratio)
    /\ pending' = DOMAIN PixelList(img_height, WidthOf(img_height, aspect_ratio))
    /\ colors' = [k \in DOMAIN PixelList(img_height,
                                          WidthOf(img_height, aspect_ratio))
                     |-> None]
    /\ rpc' = "render"
    /\ UNCHANGED << img_height, aspect_ratio, worker, thread_rng, file,
                    next_px, ret, printed, computed, users, ran_on, order, io,
                    objects >>
    /\ UNCHANGED geomVars
    /\ UNCHANGED pathVars

\* lines 155-157: worker th starts the map closure on item i
StartPixel(th, i) ==
    /\ rpc = "render"
    /\ ~worker[th].busy
    /\ i \in pending
    /\ pending' = pending \ { i }
    /\ worker' = [worker EXCEPT
                     ![th] = [busy |-> TRUE, item |-> i, col |-> Black,
                              rng |-> ThreadRngOf(th)]]
    /\ ran_on' = (i :> th) @@ ran_on
    /\ UNCHANGED << img_height, aspect_ratio, img_width, rpc, thread_rng,
                    colors, file, next_px, ret, printed, computed, users,
                    order, io, objects >>
    /\ UNCHANGED geomVars
    /\ UNCHANGED pathVars

\* lines 158-171: worker th runs the sample loop, the closure returns the
\* mean colour and collect() stores it
RunPixel(th) ==
    /\ rpc = "render"
    /\ worker[th].busy
    /\ \E r \in { SampleLoop(Items[worker[th].item], 0, worker[th].col,
                              thread_rng[worker[th].rng]) } :
       LET w == worker[th]
           c == ColDivS(r.col, SamplesPerPixel * One)
       IN  /\ thread_rng' = [thread_rng EXCEPT ![w.rng] = r.rng]
           /\ users' = [users EXCEPT ![w.rng] = @ \cup { w.item }]
           /\ colors' = [colors EXCEPT
                            ![CollectSlot(w.item, NumCollected)] = Some(c)]
           /\ computed' = (Items[w.item] :> c) @@ computed
    /\ order' = Append(order, worker[th].item)
    /\ worker' = [worker EXCEPT ![th] = Idle]
    /\ UNCHANGED << img_height, aspect_ratio, img_width, rpc, pending, file,
                    next_px, ret, printed, ran_on, io, objects >>
    /\ UNCHANGED geomVars
    /\ UNCHANGED pathVars

\* line 171: collect() returns once every item is done
Collected ==
    /\ rpc = "render"
    /\ pending = {}
    /\ \A th \in Threads : ~worker[th].busy
    /\ rpc' = "create"
    /\ UNCHANGED << img_height, aspect_ratio, img_width, pending, worker,
                    thread_rng, colors, file, next_px, ret, printed, computed,
                    users, ran_on, order, io, objects >>
    /\ UNCHANGED geomVars
    /\ UNCHANGED pathVars

\* the effect of one I/O call with outcome r when it succeeds with file f and
\* position p, for the `?` that follows it
AfterIo(r, f, p, n) ==
    /\ io' = [calls |-> io.calls + 1,
              failed |-> IF r # "ok" /\ ~io.failed.some THEN Some(r)
                         ELSE io.failed]
    /\ IF Propagates(r)
       THEN /\ ret' = Some([ok |-> FALSE, err |-> r])
            /\ rpc' = "returned"
            /\ UNCHANGED << file, next_px >>
       ELSE /\ file' = (IF r = "ok" THEN f ELSE file)
            /\ next_px' = n
            /\ rpc' = p
            /\ UNCHANGED ret

\* line 173: File::create(outputfile)?
CreateFile(r) ==
    /\ rpc = "create"
    /\ AfterIo(r, Some(<< >>), "header", 1)
    /\ UNCHANGED << img_height, aspect_ratio, img_width, pending, worker,
                    thread_rng, colors, printed, computed, users, ran_on,
                    order, objects >>
    /\ UNCHANGED geomVars
    /\ UNCHANGED pathVars

\* line 174: writeln!(outfile, "P3\n{} {}\n{}", img_width, img_height, u8::MAX)?
WriteHeader(r) ==
    /\ rpc = "header"
    /\ AfterIo(r, IF file.some
                  THEN Some(file.val \o << << "P3" >>,
                                          << img_width, img_height >>,
                                          << U8Max >> >>)
                  ELSE file,
               "pixels", 1)
    /\ UNCHANGED << img_height, aspect_ratio, img_width, pending, worker,
                    thread_rng, colors, printed, computed, users, ran_on,
                    order, objects >>
    /\ UNCHANGED geomVars
    /\ UNCHANGED pathVars

\* lines 176-180: one iteration of the write loop
WritePixel(r) ==
    /\ rpc = "pixels"
    /\ next_px <= Len(colors)
    /\ AfterIo(r, IF file.some /\ colors[next_px].some
                  THEN Some(Append(file.val,
                                   Display(Clamp(GammaCorrection(
                                       colors[next_px].val)))))
                  ELSE file,
               "pixels", next_px + 1)
    /\ UNCHANGED << img_height, aspect_ratio, img_width, pending, worker,
                    thread_rng, colors, printed, computed, users, ran_on,
                    order, objects >>
    /\ UNCHANGED geomVars
    /\ UNCHANGED pathVars

\* line 182: Ok(())
ReturnOk ==
    /\ rpc = "pixels"
    /\ next_px > Len(colors)
    /\ ret' = Some([ok |-> TRUE])
    /\ rpc' = "returned"
    /\ UNCHANGED << img_height, aspect_ratio, img_width, pending, worker,
                    thread_rng, colors, file, next_px, printed, computed,
                    users, ran_on, order, io, objects >>
    /\ UNCHANGED geomVars
    /\ UNCHANGED pathVars

\* lines 227-230: raytracing prints the outcome
Report ==
    /\ rpc = "returned"
    /\ printed' = Some(IF ret.val.ok
                       THEN [text |-> "Printed", filename |-> OutputFile]
                       ELSE [text |-> "Error happened while printing",
                             filename |-> OutputFile, e |-> ret.val.err])
    /\ rpc' = "reported"
    /\ UNCHANGED << img_height, aspect_ratio, img_width, pending, worker,
                    thread_rng, colors, file, next_px, ret, computed, users,
                    ran_on, order, io, objects >>
    /\ UNCHANGED geomVars
    /\ UNCHANGED pathVars

NextRender ==
    \/ BuildItems
    \/ \E th \in Threads, i \in pending : StartPixel(th, i)
    \/ \E th \in Threads : RunPixel(th)
    \/ Collected
    \/ \E r \in { "ok" } \cup IoErrors : CreateFile(r)
    \/ \E r \in { "ok" } \cup IoErrors : WriteHeader(r)
    \/ \E r \in { "ok" } \cup IoErrors : WritePixel(r)
    \/ ReturnOk
    \/ Report

SpecRender == InitRender /\ [][NextRender]_vars

\* ------------------------------------------------------------------------
\* properties of Sphere::intersect and nearest_intersection
\* ------------------------------------------------------------------------
ObjectsHit(p) == { i \in DOMAIN p.ts : p.ts[i].some }

\* C3: nearest_intersection returns None exactly when no object's intersect
\* returns Some; otherwise it returns an object that reports a hit, whose
\* distance t is the minimum over the objects that report a hit, with the
\* hit point ray.at(t), and among objects with that minimum t the earliest
\* in slice order.
C3_NearestIsEarliestMinimum ==
    probe.some =>
        LET p == probe.val
        IN  /\ (~p.res.some) <=> (ObjectsHit(p) = {})
            /\ p.res.some =>
                 LET w == p.res.val.obj
                 IN  /\ w \in ObjectsHit(p)
                     /\ \A j \in ObjectsHit(p) :
                          /\ p.ts[w].val <= p.ts[j].val
                          /\ p.ts[j].val = p.ts[w].val => w <= j
                     /\ p.res.val.pt = At(p.ray, p.ts[w].val)

\* a probe on which two objects report the same minimum distance
C3_TieWitness ==
    /\ probe.some
    /\ probe.val.res.some
    /\ \E j \in ObjectsHit(probe.val) :
         /\ j # probe.val.res.val.obj
         /\ probe.val.ts[j].val = probe.val.ts[probe.val.res.val.obj].val

\* squared distance of two points, exact
DistSq(a, b) ==
    (a.x - b.x) * (a.x - b.x) + (a.y - b.y) * (a.y - b.y)
        + (a.z - b.z) * (a.z - b.z)

\* the ray origin is strictly inside the sphere
Encloses(s, ray) == DistSq(ray.orig, s.centre) < s.radius * s.radius

\* every point of the sphere is behind the ray origin
LiesBehind(s, ray) ==
    (s.centre.x - ray.orig.x) * ray.direction.x
        + (s.centre.y - ray.orig.y) * ray.direction.y
        + (s.centre.z - ray.orig.z) * ray.direction.z
        + s.radius * Scale <= 0

\* C8: intersect returns None when the discriminant is negative; otherwise
\* it looks at t = -half_b - sqrt(discriminant) only and returns Some(t) if
\* t >= 0 and None if t < 0; so a returned distance is never negative and a
\* sphere that encloses the ray origin or lies behind it is not reported.
C8_NearestRootOnly ==
    probe.some =>
        \A i \in DOMAIN probe.val.ts :
            LET r == probe.val.ts[i]
                ray == probe.val.ray
                q == Quadratic(objects[i], ray)
                t == -q.half_b - FSqrt(q.determinant)
            IN  /\ q.determinant < 0 => r = None
                /\ (q.determinant >= 0 /\ t >= 0) => r = Some(t)
                /\ (q.determinant >= 0 /\ t < 0) => r = None
                /\ r.some => r.val >= 0
                /\ (Encloses(objects[i], ray) \/ LiesBehind(objects[i], ray))
                       => r = None

\* a probe from inside a sphere whose far root is in front of the origin
C8_InsideWitness ==
    /\ probe.some
    /\ \E i \in DOMAIN probe.val.ts :
         LET q == Quadratic(objects[i], probe.val.ray)
         IN  /\ Encloses(objects[i], probe.val.ray)
             /\ q.determinant >= 0
             /\ -q.half_b + FSqrt(q.determinant) > 0
             /\ probe.val.ts[i] = None

\* ------------------------------------------------------------------------
\* properties of the ray_color closure
\* ------------------------------------------------------------------------
\* the background gradient for a ray of direction.y = y
Background(y) ==
    LET t == FMul(Half, FAdd(y, One))
    IN  ColAdd(ColScale(FSub(One, t), White), ColScale(t, SkyBlue))

\* the product of the base colours of the objects of log[1..k], from white
RECURSIVE Product(_, _)
Product(log, k) ==
    IF k = 0 THEN White
    ELSE ColMul(Product(log, k - 1), GetColor(objects[log[k]]))

\* C1: if all max_depth iterations find an intersection, the returned
\* colour is black
C1_ExhaustionIsBlack ==
    (pc = "done" /\ Len(hitlog) = MaxDepth /\ ~calls.missed)
        => result.val = Black

\* C4: a primary ray whose first nearest_intersection is None returns white
\* times the background gradient at the primary ray's direction.y, whatever
\* the scene holds, with no scatter and no multiplication by an object colour
C4_MissIsBackground ==
    (pc = "done" /\ hitlog = << >>) =>
        /\ result.val =
               ColMul(White, Background(primary.val.ray.direction.y))
        /\ calls.scatter = 0
        /\ col = White
        /\ used_ray = primary.val.ray

\* a primary ray that misses every object of a scene that has objects
C4_MissWitness ==
    /\ pc = "done"
    /\ hitlog = << >>
    /\ objects # << >>
    /\ result.val # Black

\* the number of steps the running closure can still take, at most
Remaining ==
    IF pc = "loop" THEN (MaxDepth - iter) + 2
    ELSE IF pc = "shade" THEN 1 ELSE 0

\* C9: the loop performs at most max_depth iterations, each with one
\* nearest_intersection call and at most one scatter, makes no further call
\* after the first iteration that finds no intersection, and returns one
\* colour; it terminates because every step of the closure decreases the
\* natural number Remaining, which is at most max_depth + 2
C9_LoopTerminates ==
    /\ [](/\ iter <= MaxDepth
          /\ calls.nearest <= MaxDepth
          /\ calls.nearest = iter + (IF calls.missed THEN 1 ELSE 0)
          /\ calls.scatter = iter
          /\ calls.returned = (IF pc = "done" THEN 1 ELSE 0)
          /\ Remaining \in 0 .. (MaxDepth + 2))
    /\ [][/\ calls.missed =>
               /\ calls'.nearest = calls.nearest
               /\ calls'.scatter = calls.scatter
          /\ pc # "idle" => Remaining' < Remaining]_vars

\* a call that returned after all max_depth iterations
C9_FullDepthWitness ==
    /\ pc = "done"
    /\ calls.nearest = MaxDepth
    /\ calls.returned = 1

\* C10: the accumulated colour is the product of the base colours of the
\* objects hit so far, starting from white; an iteration that finds an
\* intersection multiplies it by the colour of the nearest object and puts
\* the scattered ray in the cursor; a run that ends on a miss returns that
\* product times the background gradient at the cursor's direction.y
C10_ColourIsProductOfHits ==
    /\ [](/\ col = Product(hitlog, Len(hitlog))
          /\ count = Len(hitlog)
          /\ (pc = "done" /\ calls.missed) =>
                result.val = ColMul(Product(hitlog, Len(hitlog)),
                                    Background(used_ray.direction.y)))
    /\ [][Len(hitlog') = Len(hitlog) + 1 =>
            LET h == NearestIntersection(used_ray, objects).val
            IN  /\ hitlog'[Len(hitlog')] = h.obj
                /\ Intersect(objects[h.obj], used_ray).some
                /\ \A j \in 1 .. Len(objects) :
                     Intersect(objects[j], used_ray).some =>
                         Intersect(objects[h.obj], used_ray).val
                             <= Intersect(objects[j], used_ray).val
                /\ col' = ColMul(col, GetColor(objects[h.obj]))
                /\ used_ray' = Scatter(rng, used_ray, h.pt, h.normal,
                                       GetMaterial(objects[h.obj])).ray]_vars

\* a run that hit two different objects and then missed
C10_TwoObjectsWitness ==
    /\ pc = "done"
    /\ calls.missed
    /\ \E i, j \in 1 .. Len(hitlog) : hitlog[i] # hitlog[j]
    /\ result.val # Black

\* ------------------------------------------------------------------------
\* properties of raytracing_ppm and raytracing
\* ------------------------------------------------------------------------
\* the pixel line of a collected colour: lines 177-179
PixelLine(c) == Display(Clamp(GammaCorrection(c)))

\* C2: the k-th pixel line written (k from 0) is the colour computed for
\* column k mod W of row H-1-(k div W), whatever order the tasks completed in
C2_RasterOrder ==
    file.some =>
        \A k \in 0 .. (Len(file.val) - 4) :
            LET px == << (img_height - 1) - (k \div img_width),
                         k % img_width >>
            IN  /\ px \in DOMAIN computed
                /\ file.val[k + 4] = PixelLine(computed[px])

\* the whole image was written although the tasks completed out of raster
\* order, and not all pixels have the same colour
C2_OutOfOrderWitness ==
    /\ ret.some
    /\ ret.val.ok
    /\ \E a, b \in 1 .. Len(order) : a < b /\ order[a] > order[b]
    /\ \E a, b \in 4 .. Len(file.val) : file.val[a] # file.val[b]

\* C5: when raytracing_ppm returns Ok, the file holds the lines P3, W H and
\* 255 and then exactly W*H pixel lines of three integers in 0..255 each
C5_PpmShape ==
    (ret.some /\ ret.val.ok) =>
        /\ file.some
        /\ Len(file.val) = 3 + img_width * img_height
        /\ file.val[1] = << "P3" >>
        /\ file.val[2] = << img_width, img_height >>
        /\ file.val[3] = << 255 >>
        /\ \A k \in 4 .. Len(file.val) :
             /\ Len(file.val[k]) = 3
             /\ \A c \in 1 .. 3 : file.val[k][c] \in 0 .. 255

\* raytracing_ppm returned Ok for an image with pixels
C5_OkWitness ==
    /\ ret.some
    /\ ret.val.ok
    /\ img_width * img_height > 0
    /\ printed = Some([text |-> "Printed", filename |-> OutputFile])

C7_IoErrorIsReturned ==
    /\ [](/\ io.failed.some =>
               /\ rpc \in { "returned", "reported" }
               /\ ret = Some([ok |-> FALSE, err |-> io.failed.val])
          /\ (ret.some /\ ~ret.val.ok) =>
               io.failed = Some(ret.val.err)
          /\ rpc \in { "start", "render", "create" } =>
               (ret = None /\ io.calls = 0)
          /\ (printed.some /\ ret.some /\ ~ret.val.ok) =>
               printed.val = [text |-> "Error happened while printing",
                              filename |-> OutputFile, e |-> ret.val.err])
    /\ [][io.failed.some => (file' = file /\ io' = io)]_vars

\* a write failed after pixel lines had been written, and was reported
C7_FailedWriteWitness ==
    /\ rpc = "reported"
    /\ io.failed.some
    /\ file.some
    /\ Len(file.val) > 4
    /\ printed.some
    /\ printed.val.e = io.failed.val

====
